---------------------------- MODULE Spec2Model ----------------------------
(***************************************************************************)
(* A model of the heuristic smart-contract analyzer: analyzeContract and   *)
(* the functions it drives (preprocessSolidityCode, analyzeContractSimple, *)
(* analyzeFunction and the rule catalog).                                  *)
(*                                                                         *)
(* Source text is a TLA+ string; the JavaScript string operations the code *)
(* uses (includes, startsWith, trim, split, replace, the regular           *)
(* expressions) are operators computed on the characters of the string.    *)
(* A SmartCheckResult is a record of its severity, message, line, column,  *)
(* rule and description; the recommendation, a second constant text bound  *)
(* to the same place in the code as the description, is left out.          *)
(***************************************************************************)
EXTENDS Integers, Sequences, FiniteSets, TLC

VARIABLES
    sourceCode,         \* the argument of analyzeContract (any JavaScript value)
    pc,                 \* the position of the call in analyzeContract
    processedCode,      \* const processedCode (<<>> until assigned, then <<text>>)
    lines,              \* const lines of analyzeContractSimple
    results,            \* const results of analyzeContractSimple
    contractResults,    \* let results of analyzeContract
    currentFunction,    \* let currentFunction (NoFunction is null)
    functionStartLine,  \* let functionStartLine
    i,                  \* the index of the scanning for loop
    index,              \* the index of lines.forEach applying the rules
    user,               \* what getUser resolved with (NoUser is null)
    calls,              \* the calls made to the persistence collaborator
    db,                 \* the rows of analysis_results inserted by this call
    error,              \* the failure caught by the catch block (NoError if none)
    promise,            \* the promise analyzeContract returned to its caller
    ret,                \* the value the promise is fulfilled with
    analyzerCalls,      \* the calls of analyzeFunction made, in order
    \* two invocations of analyzeContract in one event loop
    invocation,         \* per invocation: its argument, position, failure, promise
    activation,         \* per activation of the function: its local results and user
    table,              \* the rows of analysis_results the invocations inserted
    \* one request to POST /api/analyze
    reqBody,            \* req.body.sourceCode (undefined when the body has none)
    handler,            \* the position of the request handler
    awaited,            \* how the awaited analyzeContract(sourceCode) settled
    serviceCalls,       \* the number of calls of analyzeContract by the handler
    responses,          \* the responses sent, in order
    \* the analyzeContract that parses the text (server/smartcheck-service)
    parse,              \* what parse() of solidity-parser-antlr does with each text
    astReturned         \* per text analyzed so far, the array returned for it

callVars == <<sourceCode, pc, processedCode, lines, results, contractResults,
              currentFunction, functionStartLine, i, index, user, calls, db, error,
              promise, ret, analyzerCalls>>

pairVars == <<invocation, activation, table>>

apiVars == <<reqBody, handler, awaited, serviceCalls, responses>>

astVars == <<parse, astReturned>>

vars == <<callVars, pairVars, apiVars, astVars>>

-----------------------------------------------------------------------------
(* JavaScript string operations                                            *)

Min(S) == CHOOSE x \in S : \A y \in S : x <= y
Max(S) == CHOOSE x \in S : \A y \in S : x >= y

charAt(s, k) == SubSeq(s, k, k)

\* The characters \s matches and trim() removes, among those of the model.
Whitespace == {" ", "\t", "\n", "\r"}

\* The characters \w matches.
WordChars ==
    {"a","b","c","d","e","f","g","h","i","j","k","l","m","n","o","p","q","r",
     "s","t","u","v","w","x","y","z","A","B","C","D","E","F","G","H","I","J",
     "K","L","M","N","O","P","Q","R","S","T","U","V","W","X","Y","Z","0","1",
     "2","3","4","5","6","7","8","9","_"}

\* The characters [a-fA-F0-9] matches.
HexChars ==
    {"a","b","c","d","e","f","A","B","C","D","E","F","0","1","2","3","4","5",
     "6","7","8","9"}

startsWith(s, p) == Len(s) >= Len(p) /\ SubSeq(s, 1, Len(p)) = p

includesAt(s, p, k) == k + Len(p) - 1 <= Len(s) /\ SubSeq(s, k, k + Len(p) - 1) = p

includes(s, p) == \E k \in 1..(Len(s) - Len(p) + 1) : includesAt(s, p, k)

trim(s) ==
    LET kept == {k \in 1..Len(s) : charAt(s, k) \notin Whitespace}
    IN  IF kept = {} THEN "" ELSE SubSeq(s, Min(kept), Max(kept))

RECURSIVE split(_, _)
split(s, sep) ==
    LET hits == {k \in 1..Len(s) : charAt(s, k) = sep}
    IN  IF hits = {} THEN <<s>>
        ELSE <<SubSeq(s, 1, Min(hits) - 1)>>
                 \o split(SubSeq(s, Min(hits) + 1, Len(s)), sep)

RECURSIVE join(_, _)
join(ls, sep) ==
    IF ls = <<>> THEN ""
    ELSE IF Len(ls) = 1 THEN ls[1]
    ELSE ls[1] \o sep \o join(Tail(ls), sep)

\* s.replace(/pat/g, rep) for a pattern that is a literal text.
RECURSIVE replaceAll(_, _, _)
replaceAll(s, pat, rep) ==
    LET hits == {k \in 1..(Len(s) - Len(pat) + 1) : includesAt(s, pat, k)}
    IN  IF hits = {} THEN s
        ELSE SubSeq(s, 1, Min(hits) - 1) \o rep
                 \o replaceAll(SubSeq(s, Min(hits) + Len(pat), Len(s)), pat, rep)

\* The end of the longest run of characters of set cs that starts at k
\* (k - 1 when the character at k is not in cs).
RECURSIVE runEnd(_, _, _)
runEnd(s, k, cs) ==
    IF k <= Len(s) /\ charAt(s, k) \in cs THEN runEnd(s, k + 1, cs) ELSE k - 1

-----------------------------------------------------------------------------
(* JavaScript values given as sourceCode                                   *)

JsString(s) == [type |-> "string", str |-> s, num |-> 0]
JsNumber(n) == [type |-> "number", str |-> "", num |-> n]
JsNull      == [type |-> "object", str |-> "null", num |-> 0]
JsUndefined == [type |-> "undefined", str |-> "", num |-> 0]
JsObject    == [type |-> "object", str |-> "{}", num |-> 0]

\* !v
Falsy(v) ==
    \/ v = JsNull
    \/ v = JsUndefined
    \/ v.type = "string" /\ v.str = ""
    \/ v.type = "number" /\ v.num = 0

\* typeof v
typeOf(v) == v.type

-----------------------------------------------------------------------------
(* SmartCheckResult                                                        *)

Finding(sev, msg, ln, rule, desc) ==
    [severity |-> sev, message |-> msg, line |-> ln, column |-> 1,
     rule |-> rule, description |-> desc]

InputValidationFinding ==
    Finding("error", "Invalid source code provided", 1, "input-validation",
            "The provided source code is empty or invalid.")

SyntaxFinding ==
    Finding("error", "No contract declaration found", 1, "syntax",
            "The code must contain a contract declaration.")

SentinelFinding ==
    Finding("info", "No issues found", 1, "analysis-complete",
            "The contract analysis completed successfully with no issues detected.")

InternalErrorFinding ==
    Finding("error", "Analysis error", 1, "internal-error",
            "An error occurred while analyzing the contract.")

StateVisibilityFinding(ln) ==
    Finding("low", "Public state variable without getter", ln, "state-visibility",
            "Public state variables automatically create getters, which may expose sensitive data.")

-----------------------------------------------------------------------------
(* preprocessSolidityCode                                                  *)

\* A faulty variant of preprocessSolidityCode: the lone carriage returns are
\* replaced first, so that \r\n becomes two line feeds.
preprocessCrFirst(code) ==
    trim(replaceAll(replaceAll(replaceAll(code, "\r", "\n"), "\r\n", "\n"),
                    "\t", "    "))

\* A faulty variant of preprocessSolidityCode: a carriage return that is not
\* followed by a line feed is left in the text.
preprocessCrLfOnly(code) ==
    trim(replaceAll(replaceAll(code, "\r\n", "\n"), "\t", "    "))

preprocessSolidityCode(code) ==
    trim(replaceAll(replaceAll(replaceAll(code, "\r\n", "\n"), "\r", "\n"),
                    "\t", "    "))

-----------------------------------------------------------------------------
(* The regular expressions of analyzeContractSimple and analyzeFunction    *)

\* line.match(/\.(call|send|transfer)\s*[({]/)
matchExternalCall(line) ==
    \E k \in 1..Len(line) :
        /\ charAt(line, k) = "."
        /\ \E w \in {"call", "send", "transfer"} :
              /\ includesAt(line, w, k + 1)
              /\ LET e == runEnd(line, k + 1 + Len(w), Whitespace) + 1
                 IN  e <= Len(line) /\ charAt(line, e) \in {"(", "{"}

\* line.match(/([+=]|[-=]|= [^=])/)
matchStateChange(line) ==
    \E k \in 1..Len(line) :
        \/ charAt(line, k) \in {"+", "="}
        \/ charAt(line, k) \in {"-", "="}
        \/ /\ includesAt(line, "= ", k)
           /\ k + 2 <= Len(line)
           /\ charAt(line, k + 2) # "="

\* The places where /keyword\s+(\w+)/ matches in s: keyword, at least one
\* whitespace character, at least one word character.
keywordMatches(s, keyword) ==
    {k \in 1..Len(s) :
        /\ includesAt(s, keyword, k)
        /\ LET w == runEnd(s, k + Len(keyword), Whitespace)
           IN  /\ w >= k + Len(keyword)
               /\ w + 1 <= Len(s)
               /\ charAt(s, w + 1) \in WordChars}

\* func.code.match(/function\s+(\w+)/)?.[1] || ""
functionName(code) ==
    LET ms == keywordMatches(code, "function")
    IN  IF ms = {} THEN ""
        ELSE LET w == runEnd(code, Min(ms) + 8, Whitespace)
             IN  SubSeq(code, w + 1, runEnd(code, w + 1, WordChars))

\* line.match(/modifier\s+(\w+)/g): the matched texts, left to right, none
\* overlapping another.
RECURSIVE modifierMatches(_, _)
modifierMatches(line, from) ==
    LET ms == {k \in keywordMatches(line, "modifier") : k >= from}
    IN  IF ms = {} THEN <<>>
        ELSE LET k == Min(ms)
                 w == runEnd(line, k + 8, Whitespace)
                 e == runEnd(line, w + 1, WordChars)
             IN  <<SubSeq(line, k, e)>> \o modifierMatches(line, e + 1)

\* m.replace("modifier ", ""): the first occurrence only.
dropModifierKeyword(m) ==
    LET hits == {k \in 1..Len(m) : includesAt(m, "modifier ", k)}
    IN  IF hits = {} THEN m
        ELSE SubSeq(m, 1, Min(hits) - 1) \o SubSeq(m, Min(hits) + 9, Len(m))

\* line.match(/modifier\s+(\w+)/g)?.map((m) => m.replace("modifier ", "")) || []
modifiersOf(line) ==
    LET ms == modifierMatches(line, 1)
    IN  [n \in 1..Len(ms) |-> dropModifierKeyword(ms[n])]

\* A faulty variant of visibilityOf: external is looked for first.
visibilityOfExternalFirst(line) ==
    IF includes(line, "external") THEN "external"
    ELSE IF includes(line, "public") THEN "public"
    ELSE IF includes(line, "private") THEN "private"
    ELSE IF includes(line, "internal") THEN "internal"
    ELSE "undefined"

\* The conditional chain computing visibility; "undefined" when none is found.
visibilityOf(line) ==
    IF includes(line, "public") THEN "public"
    ELSE IF includes(line, "private") THEN "private"
    ELSE IF includes(line, "internal") THEN "internal"
    ELSE IF includes(line, "external") THEN "external"
    ELSE "undefined"

-----------------------------------------------------------------------------
(* The rule catalog (smartcheck-rules.ts)                                  *)

\* The ids of the rules, in the order of the rules array.
rules ==
    <<"reentrancy", "tx-origin", "timestamp-dependence", "hardcoded-address",
      "unchecked-send", "delegatecall-usage", "selfdestruct-usage",
      "suicide-usage", "throw-usage", "gas-limit">>

reentrancyRuleExternalCall(code) ==
    includes(code, ".call{") \/ includes(code, ".send(") \/ includes(code, ".transfer(")

reentrancyRuleStateChange(code) ==
    includes(code, "balances[") \/ includes(code, "+=") \/ includes(code, "-=")

\* A faulty variant of hasCheck: only require( counts as a check.
hasCheckRequireOnly(code) == includes(code, "require(")

hasCheck(code) ==
    includes(code, "require(") \/ includes(code, "if (") \/ includes(code, "assert(")

\* /0x[a-fA-F0-9]{40}/g.test(code), the expression being built anew on each call
addressRegexTest(code) ==
    \E k \in 1..(Len(code) - 41) :
        /\ includesAt(code, "0x", k)
        /\ \A m \in 2..41 : charAt(code, k + m) \in HexChars

\* Whether the check of the rule returns a result for the text.
ruleTriggers(id, code) ==
    CASE id = "reentrancy" ->
            reentrancyRuleExternalCall(code) /\ reentrancyRuleStateChange(code)
      [] id = "tx-origin" -> includes(code, "tx.origin")
      [] id = "timestamp-dependence" -> includes(code, "block.timestamp")
      [] id = "hardcoded-address" -> addressRegexTest(code)
      [] id = "unchecked-send" ->
            (includes(code, ".send(") \/ includes(code, ".transfer(")) /\ ~hasCheck(code)
      [] id = "delegatecall-usage" -> includes(code, ".delegatecall(")
      [] id = "selfdestruct-usage" -> includes(code, "selfdestruct(")
      [] id = "suicide-usage" -> includes(code, "suicide(")
      [] id = "throw-usage" -> includes(code, "throw;")
      [] id = "gas-limit" ->
            (includes(code, "for (") \/ includes(code, "while (")) /\ ~hasCheck(code)

\* The severity member each rule of the catalog declares.
declaredSeverity(id) ==
    CASE id = "reentrancy" -> "high"
      [] id = "tx-origin" -> "high"
      [] id = "timestamp-dependence" -> "medium"
      [] id = "hardcoded-address" -> "medium"
      [] id = "unchecked-send" -> "medium"
      [] id = "delegatecall-usage" -> "high"
      [] id = "selfdestruct-usage" -> "high"
      [] id = "suicide-usage" -> "high"
      [] id = "throw-usage" -> "medium"
      [] id = "gas-limit" -> "medium"

\* A faulty variant of ruleSeverity: every result is given severity high.
ruleSeverityHigh(id) == "high"

\* The severity of the result a rule's check returns.
ruleSeverity(id) ==
    IF id \in {"reentrancy", "tx-origin", "delegatecall-usage",
               "selfdestruct-usage", "suicide-usage"}
    THEN "high" ELSE "medium"

\* The message of the result a rule's check returns.
ruleMessage(id) ==
    CASE id = "reentrancy" -> "Potential reentrancy vulnerability detected"
      [] id = "tx-origin" -> "Use of tx.origin detected"
      [] id = "timestamp-dependence" -> "Timestamp dependence detected"
      [] id = "hardcoded-address" -> "Hardcoded address detected"
      [] id = "unchecked-send" -> "Unchecked send/transfer detected"
      [] id = "delegatecall-usage" -> "Use of delegatecall detected"
      [] id = "selfdestruct-usage" -> "Use of selfdestruct detected"
      [] id = "suicide-usage" -> "Use of deprecated suicide function detected"
      [] id = "throw-usage" -> "Use of deprecated throw statement detected"
      [] id = "gas-limit" -> "Potential gas limit issue detected"

\* The description of the result a rule's check returns.
ruleDescription(id) ==
    CASE id = "reentrancy" ->
            "The contract may be vulnerable to reentrancy attacks. State changes are made after external calls."
      [] id = "tx-origin" ->
            "Use of tx.origin for authentication is vulnerable to phishing attacks."
      [] id = "timestamp-dependence" ->
            "Contract uses block.timestamp for critical operations."
      [] id = "hardcoded-address" -> "Contract contains hardcoded Ethereum addresses."
      [] id = "unchecked-send" -> "Unchecked return value from send/transfer call."
      [] id = "delegatecall-usage" -> "Use of delegatecall detected."
      [] id = "selfdestruct-usage" -> "Use of selfdestruct detected."
      [] id = "suicide-usage" -> "Use of deprecated suicide function detected."
      [] id = "throw-usage" -> "Use of deprecated throw statement detected."
      [] id = "gas-limit" -> "Potential gas limit issue detected."

\* rule.check(code, line): <<>> for null, else the one result.
check(id, code, line) ==
    IF ruleTriggers(id, code)
    THEN <<Finding(ruleSeverity(id), ruleMessage(id), line, id, ruleDescription(id))>>
    ELSE <<>>

-----------------------------------------------------------------------------
(* analyzeFunction                                                         *)

\* lines.findIndex(pred), 0-based, -1 when no line satisfies it; hit is the
\* set of the 1-based places of the lines that do.
findIndex(hit) == IF hit = {} THEN -1 ELSE Min(hit) - 1

\* A faulty variant of visibilityCheck: pure and view are looked for in the
\* signature line only.
visibilityCheckSignatureOnly(func, startLine) ==
    IF /\ func.visibility = "public"
       /\ ~includes(split(func.code, "\n")[1], "pure")
       /\ ~includes(split(func.code, "\n")[1], "view")
    THEN <<Finding("medium", "Public function without state mutability specifier",
                   startLine + 1, "visibility",
                   "Public functions should explicitly declare their state mutability.")>>
    ELSE <<>>

\* "Check visibility"
visibilityCheck(func, startLine) ==
    IF /\ func.visibility = "public"
       /\ ~includes(func.code, "pure")
       /\ ~includes(func.code, "view")
    THEN <<Finding("medium", "Public function without state mutability specifier",
                   startLine + 1, "visibility",
                   "Public functions should explicitly declare their state mutability.")>>
    ELSE <<>>

\* A faulty variant of hasValueValidation: only require(msg.value counts.
hasValueValidationRequireOnly(fnLines) ==
    \E n \in 1..Len(fnLines) : startsWith(trim(fnLines[n]), "require(msg.value")

\* const hasValueValidation
hasValueValidation(fnLines) ==
    \E n \in 1..Len(fnLines) :
        \/ startsWith(trim(fnLines[n]), "require(msg.value")
        \/ startsWith(trim(fnLines[n]), "if (msg.value")

\* "Check payable functions"
payableCheck(func, startLine) ==
    IF func.isPayable /\ ~hasValueValidation(split(func.code, "\n"))
    THEN <<Finding("medium", "Payable function without value validation",
                   startLine + 1, "payable-validation",
                   "Payable functions should validate the received value.")>>
    ELSE <<>>

\* const stateChangeIndex
stateChangeIndex(fnLines) ==
    findIndex({n \in 1..Len(fnLines) : matchStateChange(fnLines[n])})

\* const externalCallIndex
externalCallIndex(fnLines) ==
    findIndex({n \in 1..Len(fnLines) : matchExternalCall(fnLines[n])})

\* The comparison of the two indexes that decides the reentrancy finding.
stateChangeAfterCall(fnLines) ==
    stateChangeIndex(fnLines) > externalCallIndex(fnLines)

\* "Check for reentrancy"
reentrancyCheck(func, startLine) ==
    IF /\ func.hasExternalCall
       /\ func.hasStateChange
       /\ stateChangeAfterCall(split(func.code, "\n"))
    THEN <<Finding("high", "Potential reentrancy vulnerability detected",
                   startLine + 1, "reentrancy",
                   "State changes are made after external calls, which could lead to reentrancy attacks.")>>
    ELSE <<>>

\* const isProtected
isProtected(func) ==
    func.hasModifier /\ \E n \in 1..Len(func.modifiers) : func.modifiers[n] = "onlyOwner"

\* "Check for unprotected functions"
unprotectedChecks(func, startLine) ==
    LET fnLines == split(func.code, "\n")
        name == functionName(func.code)
    IN  IF isProtected(func) THEN <<>>
        ELSE (IF name = "initialize"
              THEN <<Finding("high", "Unprotected initialization function",
                             startLine + 1, "unprotected-init",
                             "Initialization function should be protected from multiple calls.")>>
              ELSE <<>>)
          \o (IF name = "upgrade"
              THEN <<Finding("high", "Unprotected upgrade function",
                             startLine + 1, "unprotected-upgrade",
                             "Upgrade functions should be protected with access control.")>>
              ELSE <<>>)
          \o (IF name = "withdraw"
              THEN <<Finding("high", "Unprotected withdraw function",
                             startLine + 1, "unprotected-withdraw",
                             "Withdraw functions should be protected with access control.")>>
              ELSE <<>>)
          \o (IF \E n \in 1..Len(fnLines) : includes(fnLines[n], "selfdestruct")
              THEN <<Finding("high", "Unprotected selfdestruct function",
                             startLine + 1, "unprotected-selfdestruct",
                             "Selfdestruct functions should be protected with access control.")>>
              ELSE <<>>)

\* analyzeFunction(func, startLine, results): the results array after the call.
analyzeFunction(func, startLine, res) ==
    res \o visibilityCheck(func, startLine)
        \o payableCheck(func, startLine)
        \o reentrancyCheck(func, startLine)
        \o unprotectedChecks(func, startLine)

-----------------------------------------------------------------------------
(* analyzeContractSimple                                                   *)

\* code.split("\n").map((line) => line.trim())
trimmedLines(code) ==
    LET raw == split(code, "\n") IN [n \in 1..Len(raw) |-> trim(raw[n])]

\* const contractLine (0-based, -1 when there is none)
contractLineOf(ls) ==
    findIndex({n \in 1..Len(ls) : startsWith(ls[n], "contract")})

\* A faulty variant of firstFunctionLineOf: a function line that precedes
\* the contract declaration counts.
firstFunctionLineAnywhere(ls) ==
    findIndex({n \in 1..Len(ls) : startsWith(ls[n], "function")})

\* const firstFunctionLine (0-based, -1 when there is none)
firstFunctionLineOf(ls) ==
    findIndex({n \in 1..Len(ls) :
                  n - 1 > contractLineOf(ls) /\ startsWith(ls[n], "function")})

\* Array.prototype.slice(start, end) for start >= 0: a negative end counts
\* from the end of the array. The result is given with the 0-based index, in
\* the array, of its first element.
slice(ls, start, end) ==
    LET stop == IF end < 0 THEN Max({Len(ls) + end, 0}) ELSE Min({end, Len(ls)})
        from == Min({start, Len(ls)})
    IN  IF stop <= from THEN <<>> ELSE SubSeq(ls, from + 1, stop)

\* const stateVariables
stateVariablesOf(ls) ==
    slice(ls, contractLineOf(ls) + 1, firstFunctionLineOf(ls))

\* The condition under which a line of stateVariables is reported.
isPublicStateVariable(line) ==
    /\ includes(line, "public")
    /\ ~includes(line, "constant")
    /\ ~includes(line, "immutable")

\* stateVariables.forEach: the results pushed, in order.
RECURSIVE stateVariableFindings(_, _, _)
stateVariableFindings(stateVariables, contractLine, n) ==
    IF n > Len(stateVariables) THEN <<>>
    ELSE (IF isPublicStateVariable(stateVariables[n])
          THEN <<StateVisibilityFinding(contractLine + (n - 1) + 2)>>
          ELSE <<>>)
         \o stateVariableFindings(stateVariables, contractLine, n + 1)

NoFunction == <<>>

\* The record assigned to currentFunction at a line starting with "function".
newFunction(line) ==
    [code |-> line,
     hasExternalCall |-> FALSE,
     hasStateChange |-> FALSE,
     isPayable |-> includes(line, "payable"),
     visibility |-> visibilityOf(line),
     hasModifier |-> Len(modifiersOf(line)) > 0,
     modifiers |-> modifiersOf(line)]

\* A faulty variant of appendLine: the flags tell of the last line only.
appendLineLastOnly(func, line) ==
    [func EXCEPT !.code = @ \o "\n" \o line,
                 !.hasExternalCall = matchExternalCall(line),
                 !.hasStateChange = matchStateChange(line)]

\* The update of currentFunction at a line that does not start with "function".
appendLine(func, line) ==
    [func EXCEPT !.code = @ \o "\n" \o line,
                 !.hasExternalCall = @ \/ matchExternalCall(line),
                 !.hasStateChange = @ \/ matchStateChange(line)]

\* A faulty variant of handOver: the call is made twice.
handOverTwice(log, func, start) ==
    IF func # NoFunction
    THEN log \o <<[func |-> func[1], startLine |-> start],
                  [func |-> func[1], startLine |-> start]>>
    ELSE log

\* if (currentFunction) { analyzeFunction(currentFunction, functionStartLine,
\* results) }: the calls of analyzeFunction made so far, with the arguments
\* of this one when it is made.
handOver(log, func, start) ==
    IF func # NoFunction
    THEN Append(log, [func |-> func[1], startLine |-> start])
    ELSE log

\* A faulty variant of hasSimilar: a result 2 lines away is not similar.
hasSimilarWithinOne(res, result) ==
    \E n \in 1..Len(res) :
        /\ res[n].rule = result.rule
        /\ (res[n].line - result.line) \in -1..1

\* A faulty variant of hasSimilar: only a result on the same line is similar.
hasSimilarSameLine(res, result) ==
    \E n \in 1..Len(res) :
        res[n].rule = result.rule /\ res[n].line = result.line

\* Whether results holds "a similar result": the same rule within 2 lines.
hasSimilar(res, result) ==
    \E n \in 1..Len(res) :
        /\ res[n].rule = result.rule
        /\ (res[n].line - result.line) \in -2..2

\* rules.forEach on one line: the results array after the rules from the
\* k-th on were applied to the line, in catalog order.
RECURSIVE applyRules(_, _, _, _)
applyRules(res, line, lineNo, k) ==
    IF k > Len(rules) THEN res
    ELSE LET result == check(rules[k], line, lineNo)
         IN  IF result # <<>> /\ ~hasSimilar(res, result[1])
             THEN applyRules(Append(res, result[1]), line, lineNo, k + 1)
             ELSE applyRules(res, line, lineNo, k + 1)

\* The scanning for loop from its iteration k on, and "Analyze last
\* function": the results array when the loop has ended.
RECURSIVE scanLines(_, _, _, _, _)
scanLines(ls, k, func, start, res) ==
    IF k = Len(ls)
    THEN IF func # NoFunction THEN analyzeFunction(func[1], start, res) ELSE res
    ELSE LET line == ls[k + 1]
         IN  IF startsWith(line, "function")
             THEN scanLines(ls, k + 1, <<newFunction(line)>>, k,
                            IF func # NoFunction
                            THEN analyzeFunction(func[1], start, res)
                            ELSE res)
             ELSE scanLines(ls, k + 1,
                            IF func # NoFunction
                            THEN <<appendLine(func[1], line)>>
                            ELSE func,
                            start, res)

\* lines.forEach applying the rules, from its iteration k on.
RECURSIVE applyRulesToLines(_, _, _)
applyRulesToLines(res, ls, k) ==
    IF k = Len(ls) THEN res
    ELSE applyRulesToLines(applyRules(res, ls[k + 1], k + 1, 1), ls, k + 1)

\* analyzeContractSimple(code): the array it returns.
analyzeContractSimple(code) ==
    LET ls == trimmedLines(code)
    IN  IF contractLineOf(ls) = -1 THEN <<SyntaxFinding>>
        ELSE applyRulesToLines(
                 scanLines(ls, 0, NoFunction, 0,
                           stateVariableFindings(stateVariablesOf(ls),
                                                 contractLineOf(ls), 1)),
                 ls, 0)

-----------------------------------------------------------------------------
(* The inputs                                                              *)

\* The greatest number of lines of a text built from GeneralLines.
MaxLines == 3

\* The greatest number of body lines of a text built from BodyLines.
MaxBody == 3

SeqsUpTo(S, n) == UNION {[1..k -> S] : k \in 1..n}

\* Values that are not a text, the empty text, and a text of blanks.
OtherInputs ==
    {JsNull, JsUndefined, JsNumber(0), JsNumber(42), JsObject, JsString(""),
     JsString("  ")}

GeneralLines ==
    {"contract Test {",
     "uint public value;",
     "uint public constant value = 100;",
     "uint public immutable cap;",
     "function test() public {",
     "require(tx.origin == owner);",
     "}"}

GeneralTexts == {join(ls, "\n") : ls \in SeqsUpTo(GeneralLines, MaxLines)}

Signatures ==
    {"function withdraw(uint amount) public {",
     "function peek() public view {",
     "function helper() private {"}

BodyLines ==
    {"msg.sender.call{value: amount}(\"\");",
     "balances[msg.sender] -= amount;",
     "require(balances[msg.sender] >= amount);",
     "(bool success, ) = msg.sender.call{value: amount}(\"\");",
     "msg.sender.call{value: balances[msg.sender]}(\"\");",
     "// overview"}

FunctionTexts ==
    {join(<<"contract Bank {", sig>> \o body, "\n") :
        sig \in Signatures, body \in SeqsUpTo(BodyLines, MaxBody)}

\* SAMPLE_CONTRACT of CodeAnalyzer.tsx
SAMPLE_CONTRACT ==
    join(<<"pragma solidity ^0.8.0;",
           "",
           "contract VulnerableContract {",
           "    mapping(address => uint) public balances;",
           "    ",
           "    function deposit() public payable {",
           "        balances[msg.sender] += msg.value;",
           "    }",
           "    ",
           "    function withdraw(uint amount) public {",
           "        require(balances[msg.sender] >= amount);",
           "        (bool success, ) = msg.sender.call{value: amount}(\"\");",
           "        require(success);",
           "        balances[msg.sender] -= amount;",
           "    }",
           "}">>, "\n")

\* The texts of the tests of analyzeContract, as the test files write them.
TestTexts ==
    {"\n" \o SAMPLE_CONTRACT,
     join(<<"", "        pragma solidity ^0.8.0;", "        uint public value;",
            "      ">>, "\n"),
     join(<<"", "        pragma solidity ^0.8.0;", "        contract Test {",
            "          uint public value;", "        }", "      ">>, "\n"),
     join(<<"", "        pragma solidity ^0.8.0;", "        contract Test {",
            "          uint public constant value = 100;", "        }", "      ">>, "\n"),
     join(<<"", "        pragma solidity ^0.8.0;", "        contract Test {",
            "          function test() public {", "            // some code",
            "          }", "        }", "      ">>, "\n"),
     "pragma solidity ^0.8.0;\r\ncontract Test {\r\n  uint public value;\r\n}"}

\* The greatest length of a text built from RawChars.
MaxRaw == 5

RawChars == {"\r", "\n", "\t", "a"}

\* Texts of line endings, tabs and a letter, in every order.
RawTexts == {join(cs, "") : cs \in SeqsUpTo(RawChars, MaxRaw)}

\* One contract written with each line ending and with a tab or a space
\* between the words of its declaration.
LineEndingTexts ==
    {"contract Test {" \o e1 \o "uint" \o g \o "public value;" \o e2 \o "}" :
        e1 \in {"\n", "\r\n", "\r"}, e2 \in {"\n", "\r\n", "\r"}, g \in {" ", "\t"}}

\* The greatest number of lines of a text built from RuleLines.
MaxRuleLines == 2

\* Lines on which the rules of the catalog trigger, or nearly do.
RuleLines ==
    {"addr.send(1);",
     "require(addr.send(1));",
     "if (ok) a.transfer(balances[a]);",
     "a.transfer(v); total += v;",
     "return tx.origin == owner;",
     "return block.timestamp;",
     "address constant owner = 0x1234567890123456789012345678901234567890;",
     "uint256 constant v = 0x123456789012345678901234567890123456789;",
     "target.delegatecall(data);",
     "selfdestruct(owner);",
     "suicide(owner);",
     "throw;",
     "for (uint k = 0; k < n; k++) {",
     "while (k < n) { assert(k < 10);"}

RuleTexts ==
    {join(<<"contract Test {">> \o ls, "\n") : ls \in SeqsUpTo(RuleLines, MaxRuleLines)}

\* The greatest number of body lines of a text built from GuardLines.
MaxGuard == 2

\* Signature lines of every visibility, payable or not, with and without
\* an owner-only modifier, some with a statement on the signature line.
FunctionSignatures ==
    {"function initialize() public payable {",
     "function upgrade(address impl) external modifier onlyOwner {",
     "function withdraw() public modifier  onlyOwner {",
     "function withdraw() private {",
     "function kill() internal view {",
     "function pay(address publicKey) external payable { to.transfer(1); }",
     "function set(uint v) { value = v; }"}

GuardLines ==
    {"require(msg.value > 0);",
     "if (msg.value == 0) revert();",
     "total += msg.value; require(msg.value > 0);",
     "owner.transfer(1);",
     "selfdestruct(owner);"}

\* A contract of one function.
GuardTexts ==
    {join(<<"contract Vault {", sig>> \o steps, "\n") :
        sig \in FunctionSignatures,
        steps \in {<<>>} \cup SeqsUpTo(GuardLines, MaxGuard)}

\* A contract of two functions, each of at most one body line.
TwoFunctionTexts ==
    {join(<<"contract Vault {", sig1>> \o steps1 \o <<sig2>> \o steps2, "\n") :
        sig1 \in FunctionSignatures, sig2 \in FunctionSignatures,
        steps1 \in {<<>>, <<"selfdestruct(owner);">>, <<"require(msg.value > 0);">>},
        steps2 \in {<<>>, <<"selfdestruct(owner);">>, <<"require(msg.value > 0);">>}}

\* The greatest number of lines between the contract declaration and the
\* first function of a text of PreambleTexts.
MaxPreamble == 2

PreambleLines ==
    {"uint public value;",
     "uint public constant cap = 1;",
     "address private owner;"}

\* A contract whose declaration is followed by state variables and then by
\* a function; before the declaration nothing, a pragma or a function.
PreambleTexts ==
    {join(before \o <<"contract Test {">> \o preamble
              \o <<"function get() public view {">> \o after, "\n") :
        before \in {<<>>, <<"pragma solidity ^0.8.0;">>, <<"function early() private {">>},
        preamble \in {<<>>} \cup SeqsUpTo(PreambleLines, MaxPreamble),
        after \in {<<>>, <<"uint public late;">>, <<"}">>}}

\* The greatest number of lines after the declaration in a text of ThrowTexts.
MaxThrow == 5

\* A contract of throw statements and closing braces, in every order.
ThrowTexts ==
    {join(<<"contract Old {">> \o ls, "\n") : ls \in SeqsUpTo({"throw;", "}"}, MaxThrow)}

Inputs ==
    OtherInputs \cup
    {JsString(t) : t \in GeneralTexts \cup FunctionTexts \cup TestTexts
                          \cup {SAMPLE_CONTRACT} \cup RawTexts \cup LineEndingTexts
                          \cup RuleTexts \cup GuardTexts \cup TwoFunctionTexts
                          \cup PreambleTexts \cup ThrowTexts}

-----------------------------------------------------------------------------
(* analyzeContract                                                         *)

NoUser == "null"
NoError == [call |-> "none", how |-> "none"]

\* The ids of the users getUser can resolve with.
Users == {"u1", "u2"}

\* No second invocation and no request: the variables of the other two
\* specifications rest.
PairIdle == invocation = <<>> /\ activation = <<>> /\ table = <<>>
ApiIdle ==
    /\ reqBody = JsUndefined /\ handler = "idle" /\ awaited = <<>>
    /\ serviceCalls = 0 /\ responses = <<>>

AstIdle == parse = <<>> /\ astReturned = <<>>

Init ==
    /\ sourceCode \in Inputs
    /\ pc = "validate"
    /\ processedCode = <<>>
    /\ lines = <<>>
    /\ results = <<>>
    /\ contractResults = <<>>
    /\ currentFunction = NoFunction
    /\ functionStartLine = 0
    /\ i = 0
    /\ index = 0
    /\ user = NoUser
    /\ calls = <<>>
    /\ db = <<>>
    /\ error = NoError
    /\ promise = "pending"
    /\ ret = <<>>
    /\ analyzerCalls = <<>>
    /\ PairIdle
    /\ ApiIdle
    /\ AstIdle

\* A faulty variant of invalidInput: the typeof test is missing.
invalidInputFalsyOnly(v) == Falsy(v)

\* !sourceCode || typeof sourceCode !== "string"
invalidInput(v) == Falsy(v) \/ typeOf(v) # "string"

\* The replacement of an empty or info-only results array by the sentinel.
finalize(res) ==
    IF Len(res) = 0 \/ \A n \in 1..Len(res) : res[n].severity = "info"
    THEN <<SentinelFinding>>
    ELSE res

\* A faulty variant of catchBlock: the failure is thrown again.
catchBlockRethrows(err) == [promise |-> "rejected", value |-> <<>>]

\* What the catch block settles the promise with: it returns a result and
\* throws nothing.
catchBlock(err) == [promise |-> "fulfilled", value |-> <<InternalErrorFinding>>]

\* What the promise of analyzeContract(v) is fulfilled with when the awaits
\* of getUser and insert ended as err tells (NoError: none of them failed).
analyzeContractResult(v, err) ==
    IF invalidInput(v) THEN <<InputValidationFinding>>
    ELSE IF err # NoError THEN catchBlock(err).value
    ELSE finalize(analyzeContractSimple(preprocessSolidityCode(v.str)))

\* The input validation at the start of the try block.
Validate ==
    /\ pc = "validate"
    /\ IF invalidInput(sourceCode)
       THEN /\ ret' = <<InputValidationFinding>>
            /\ promise' = "fulfilled"
            /\ pc' = "done"
       ELSE /\ pc' = "preprocess"
            /\ UNCHANGED <<ret, promise>>
    /\ UNCHANGED <<sourceCode, processedCode, lines, results, contractResults, currentFunction,
                   functionStartLine, i, index, user, calls, db, error>>
    /\ UNCHANGED <<analyzerCalls, pairVars, apiVars, astVars>>

\* const processedCode = preprocessSolidityCode(sourceCode)
Preprocess ==
    /\ pc = "preprocess"
    /\ processedCode' = <<preprocessSolidityCode(sourceCode.str)>>
    /\ pc' = "extract"
    /\ UNCHANGED <<sourceCode, lines, results, contractResults, currentFunction, functionStartLine,
                   i, index, user, calls, db, error, promise, ret>>
    /\ UNCHANGED <<analyzerCalls, pairVars, apiVars, astVars>>

\* analyzeContractSimple up to the scanning loop: the lines, the contract
\* declaration (without one the function returns the syntax result) and the
\* state variables.
Extract ==
    /\ pc = "extract"
    /\ LET ls == trimmedLines(processedCode[1])
       IN  /\ lines' = ls
           /\ IF contractLineOf(ls) = -1
              THEN /\ results' = <<SyntaxFinding>>
                   /\ pc' = "finalize"
              ELSE /\ results' = stateVariableFindings(stateVariablesOf(ls),
                                                       contractLineOf(ls), 1)
                   /\ pc' = "scan"
    /\ UNCHANGED <<sourceCode, processedCode, contractResults, currentFunction,
                   functionStartLine, i, index, user, calls, db, error, promise, ret>>
    /\ UNCHANGED <<analyzerCalls, pairVars, apiVars, astVars>>

\* One iteration of the scanning for loop.
ScanLine ==
    /\ pc = "scan"
    /\ i < Len(lines)
    /\ LET line == lines[i + 1]
       IN  IF startsWith(line, "function")
           THEN /\ results' = IF currentFunction # NoFunction
                              THEN analyzeFunction(currentFunction[1],
                                                   functionStartLine, results)
                              ELSE results
                /\ analyzerCalls' = handOver(analyzerCalls, currentFunction,
                                             functionStartLine)
                /\ currentFunction' = <<newFunction(line)>>
                /\ functionStartLine' = i
           ELSE /\ currentFunction' = IF currentFunction # NoFunction
                                      THEN <<appendLine(currentFunction[1], line)>>
                                      ELSE currentFunction
                /\ UNCHANGED <<results, functionStartLine, analyzerCalls>>
    /\ i' = i + 1
    /\ UNCHANGED <<sourceCode, pc, processedCode, lines, contractResults, index,
                   user, calls, db, error, promise, ret>>
    /\ UNCHANGED <<pairVars, apiVars, astVars>>

\* The end of the loop: "Analyze last function".
AnalyzeLastFunction ==
    /\ pc = "scan"
    /\ i = Len(lines)
    /\ results' = IF currentFunction # NoFunction
                  THEN analyzeFunction(currentFunction[1], functionStartLine, results)
                  ELSE results
    /\ analyzerCalls' = handOver(analyzerCalls, currentFunction, functionStartLine)
    /\ pc' = "rules"
    /\ UNCHANGED <<sourceCode, processedCode, lines, contractResults,
                   currentFunction, functionStartLine, i, index, user, calls, db,
                   error, promise, ret>>
    /\ UNCHANGED <<pairVars, apiVars, astVars>>

\* One iteration of lines.forEach: every rule on one line; after the last
\* line analyzeContractSimple returns.
ApplyRules ==
    /\ pc = "rules"
    /\ index < Len(lines)
    /\ results' = applyRules(results, lines[index + 1], index + 1, 1)
    /\ index' = index + 1
    /\ pc' = IF index + 1 = Len(lines) THEN "finalize" ELSE "rules"
    /\ UNCHANGED <<sourceCode, processedCode, lines, contractResults,
                   currentFunction, functionStartLine, i, user, calls, db, error,
                   promise, ret>>
    /\ UNCHANGED <<analyzerCalls, pairVars, apiVars, astVars>>

\* let results = analyzeContractSimple(processedCode), and "Only add 'No
\* issues found' if there are no actual issues"
Finalize ==
    /\ pc = "finalize"
    /\ contractResults' = finalize(results)
    /\ pc' = "getUser"
    /\ UNCHANGED <<sourceCode, processedCode, lines, results, currentFunction,
                   functionStartLine, i, index, user, calls, db, error, promise, ret>>
    /\ UNCHANGED <<analyzerCalls, pairVars, apiVars, astVars>>

\* await supabase.auth.getUser(): it resolves with a user or with null, or
\* it fails (the call throws or its promise rejects).
GetUser ==
    /\ pc = "getUser"
    /\ calls' = Append(calls, "getUser")
    /\ \/ \E u \in Users : user' = u /\ pc' = "insert" /\ UNCHANGED error
       \/ user' = NoUser /\ pc' = "return" /\ UNCHANGED error
       \/ \E how \in {"throws", "rejects"} :
             error' = [call |-> "getUser", how |-> how] /\ pc' = "catch" /\ UNCHANGED user
    /\ UNCHANGED <<sourceCode, processedCode, lines, results, contractResults, currentFunction,
                   functionStartLine, i, index, db, promise, ret>>
    /\ UNCHANGED <<analyzerCalls, pairVars, apiVars, astVars>>

\* A faulty variant of insertedRow: the text is stored without the blanks
\* around it.
insertedRowTrimmed(source, res, u) ==
    [source_code |-> trim(source), results |-> res, user_id |-> u]

\* The record given to insert.
insertedRow(source, res, u) ==
    [source_code |-> source, results |-> res, user_id |-> u]

\* await supabase.from("analysis_results").insert(...): the row is stored,
\* or the call resolves with an error the code does not read, or it fails.
Insert ==
    /\ pc = "insert"
    /\ calls' = Append(calls, "insert")
    /\ \/ /\ db' = Append(db, insertedRow(sourceCode.str, contractResults, user))
          /\ pc' = "return"
          /\ UNCHANGED error
       \/ pc' = "return" /\ UNCHANGED <<db, error>>
       \/ \E how \in {"throws", "rejects"} :
             error' = [call |-> "insert", how |-> how] /\ pc' = "catch" /\ UNCHANGED db
    /\ UNCHANGED <<sourceCode, processedCode, lines, results, contractResults, currentFunction,
                   functionStartLine, i, index, user, promise, ret>>
    /\ UNCHANGED <<analyzerCalls, pairVars, apiVars, astVars>>

\* return results
Return ==
    /\ pc = "return"
    /\ ret' = contractResults
    /\ promise' = "fulfilled"
    /\ pc' = "done"
    /\ UNCHANGED <<sourceCode, processedCode, lines, results, contractResults, currentFunction,
                   functionStartLine, i, index, user, calls, db, error>>
    /\ UNCHANGED <<analyzerCalls, pairVars, apiVars, astVars>>

\* The catch block.
Catch ==
    /\ pc = "catch"
    /\ ret' = catchBlock(error).value
    /\ promise' = catchBlock(error).promise
    /\ pc' = "done"
    /\ UNCHANGED <<sourceCode, processedCode, lines, results, contractResults, currentFunction,
                   functionStartLine, i, index, user, calls, db, error>>
    /\ UNCHANGED <<analyzerCalls, pairVars, apiVars, astVars>>

Next ==
    \/ Validate
    \/ Preprocess
    \/ Extract
    \/ ScanLine
    \/ AnalyzeLastFunction
    \/ ApplyRules
    \/ Finalize
    \/ GetUser
    \/ Insert
    \/ Return
    \/ Catch

Spec == Init /\ [][Next]_vars

-----------------------------------------------------------------------------
(* Two invocations of analyzeContract in one event loop. An invocation     *)
(* runs without interruption from its call to its first await and from     *)
(* the settling of an await to the next await or to its return.            *)

Invocations == {1, 2}

PairInputs ==
    {JsNumber(42),
     JsString("uint public value;"),
     JsString("contract Test {\nuint public value;\n}"),
     JsString("contract Test {\nuint public constant value = 100;\n}"),
     JsString("contract Bank {\nfunction withdraw(uint amount) public {\nmsg.sender.call{value: amount}(\"\");\nbalances[msg.sender] -= amount;")}

\* A faulty variant of frame: the locals are kept in one place for all the
\* invocations, as variables of the module would be.
frameShared(c) == 1

\* The activation that holds the locals (results, user) of invocation c:
\* they are declared inside the function, so each invocation has its own.
frame(c) == c

Suspended(c) == invocation[c].pc \in {"getUser", "insert", "return", "catch"}

PairInit ==
    /\ invocation \in [Invocations -> {[sourceCode |-> v, pc |-> "call", error |-> NoError,
                                         promise |-> "pending", ret |-> <<>>,
                                         interleaved |-> FALSE] : v \in PairInputs}]
    /\ activation = [c \in Invocations |-> [results |-> <<>>, user |-> NoUser]]
    /\ table = <<>>
    /\ ApiIdle
    /\ AstIdle
    /\ sourceCode = JsUndefined /\ pc = "idle" /\ processedCode = <<>>
    /\ lines = <<>> /\ results = <<>> /\ contractResults = <<>>
    /\ currentFunction = NoFunction /\ functionStartLine = 0 /\ i = 0
    /\ index = 0 /\ user = NoUser /\ calls = <<>> /\ db = <<>>
    /\ error = NoError /\ promise = "pending" /\ ret = <<>>
    /\ analyzerCalls = <<>>

\* The call of analyzeContract up to its first await: the validation, and
\* for a valid text the engine, the sentinel replacement and the call of
\* getUser.
PairCall(c) ==
    /\ invocation[c].pc = "call"
    /\ LET v == invocation[c].sourceCode
           other == \E d \in Invocations \ {c} : Suspended(d)
       IN  IF invalidInput(v)
           THEN /\ invocation' = [invocation EXCEPT
                                     ![c].ret = <<InputValidationFinding>>,
                                     ![c].promise = "fulfilled",
                                     ![c].pc = "done"]
                /\ UNCHANGED activation
           ELSE /\ invocation' =
                      [d \in Invocations |->
                          IF d = c
                          THEN [invocation[d] EXCEPT !.pc = "getUser",
                                                     !.interleaved = other]
                          ELSE [invocation[d] EXCEPT
                                   !.interleaved = @ \/ Suspended(d)]]
                /\ activation' = [activation EXCEPT ![frame(c)].results =
                        finalize(analyzeContractSimple(preprocessSolidityCode(v.str)))]
    /\ UNCHANGED <<table, callVars, apiVars, astVars>>

\* The await of getUser settles for invocation c.
PairGetUser(c) ==
    /\ invocation[c].pc = "getUser"
    /\ \/ \E u \in Users :
             /\ activation' = [activation EXCEPT ![frame(c)].user = u]
             /\ invocation' = [invocation EXCEPT ![c].pc = "insert"]
       \/ /\ activation' = [activation EXCEPT ![frame(c)].user = NoUser]
          /\ invocation' = [invocation EXCEPT ![c].pc = "return"]
       \/ \E how \in {"throws", "rejects"} :
             /\ invocation' = [invocation EXCEPT
                                  ![c].error = [call |-> "getUser", how |-> how],
                                  ![c].pc = "catch"]
             /\ UNCHANGED activation
    /\ UNCHANGED <<table, callVars, apiVars, astVars>>

\* The await of insert settles for invocation c.
PairInsert(c) ==
    /\ invocation[c].pc = "insert"
    /\ \/ /\ table' = Append(table, [source_code |-> invocation[c].sourceCode.str,
                                     results |-> activation[frame(c)].results,
                                     user_id |-> activation[frame(c)].user])
          /\ invocation' = [invocation EXCEPT ![c].pc = "return"]
       \/ /\ invocation' = [invocation EXCEPT ![c].pc = "return"]
          /\ UNCHANGED table
       \/ \E how \in {"throws", "rejects"} :
             /\ invocation' = [invocation EXCEPT
                                  ![c].error = [call |-> "insert", how |-> how],
                                  ![c].pc = "catch"]
             /\ UNCHANGED table
    /\ UNCHANGED <<activation, callVars, apiVars, astVars>>

\* return results, for invocation c.
PairReturn(c) ==
    /\ invocation[c].pc = "return"
    /\ invocation' = [invocation EXCEPT ![c].ret = activation[frame(c)].results,
                                        ![c].promise = "fulfilled",
                                        ![c].pc = "done"]
    /\ UNCHANGED <<activation, table, callVars, apiVars, astVars>>

\* The catch block, for invocation c.
PairCatch(c) ==
    /\ invocation[c].pc = "catch"
    /\ invocation' = [invocation EXCEPT
                         ![c].ret = catchBlock(invocation[c].error).value,
                         ![c].promise = catchBlock(invocation[c].error).promise,
                         ![c].pc = "done"]
    /\ UNCHANGED <<activation, table, callVars, apiVars, astVars>>

PairNext ==
    \E c \in Invocations :
        \/ PairCall(c)
        \/ PairGetUser(c)
        \/ PairInsert(c)
        \/ PairReturn(c)
        \/ PairCatch(c)

SpecPair == PairInit /\ [][PairNext]_vars

-----------------------------------------------------------------------------
(* The handler of POST /api/analyze. The body of the request has been      *)
(* parsed by express.json() into an object; analyzeContract is the         *)
(* function the handler imports, which settles as any promise may.         *)

\* The greatest number of lines of a text sent to the handler.
MaxApiLines == 2

ApiTexts == {join(ls, "\n") : ls \in SeqsUpTo(GeneralLines, MaxApiLines)}

\* The values of req.body.sourceCode: undefined when the body has no such
\* member, else the JSON value given.
ApiBodies ==
    {JsUndefined, JsNull, JsNumber(0), JsNumber(42), JsObject, JsString(""),
     JsString("  ")} \cup {JsString(t) : t \in ApiTexts}

BadRequest == [status |-> 400, error |-> "Source code is required", results |-> <<>>]
ServerError == [status |-> 500, error |-> "Failed to analyze contract", results |-> <<>>]
Ok(r) == [status |-> 200, error |-> "", results |-> r]

\* A faulty variant of sourceCodeRequired: only an absent member is refused.
sourceCodeRequiredWhenAbsent(v) == v = JsUndefined

\* if (!sourceCode)
sourceCodeRequired(v) == Falsy(v)

ApiInit ==
    /\ reqBody \in ApiBodies
    /\ handler = "received"
    /\ awaited = <<>>
    /\ serviceCalls = 0
    /\ responses = <<>>
    /\ PairIdle
    /\ AstIdle
    /\ sourceCode = JsUndefined /\ pc = "idle" /\ processedCode = <<>>
    /\ lines = <<>> /\ results = <<>> /\ contractResults = <<>>
    /\ currentFunction = NoFunction /\ functionStartLine = 0 /\ i = 0
    /\ index = 0 /\ user = NoUser /\ calls = <<>> /\ db = <<>>
    /\ error = NoError /\ promise = "pending" /\ ret = <<>>
    /\ analyzerCalls = <<>>

\* The handler up to its await: the 400 response, or the call of
\* analyzeContract.
HandleRequest ==
    /\ handler = "received"
    /\ IF sourceCodeRequired(reqBody)
       THEN /\ responses' = Append(responses, BadRequest)
            /\ handler' = "done"
            /\ UNCHANGED serviceCalls
       ELSE /\ serviceCalls' = serviceCalls + 1
            /\ handler' = "await"
            /\ UNCHANGED responses
    /\ UNCHANGED <<reqBody, awaited, callVars, pairVars, astVars>>

\* The awaited promise is fulfilled: res.json({ results }).
Respond ==
    /\ handler = "await"
    /\ \E err \in {NoError, [call |-> "getUser", how |-> "rejects"]} :
          awaited' = <<[how |-> "fulfilled", value |-> analyzeContractResult(reqBody, err)]>>
    /\ responses' = Append(responses, Ok(awaited'[1].value))
    /\ handler' = "done"
    /\ UNCHANGED <<reqBody, serviceCalls, callVars, pairVars, astVars>>

\* The awaited promise is rejected: the catch block of the handler.
RespondError ==
    /\ handler = "await"
    /\ awaited' = <<[how |-> "rejected", value |-> <<>>]>>
    /\ responses' = Append(responses, ServerError)
    /\ handler' = "done"
    /\ UNCHANGED <<reqBody, serviceCalls, callVars, pairVars, astVars>>

ApiNext ==
    \/ HandleRequest
    \/ Respond
    \/ RespondError

SpecApi == ApiInit /\ [][ApiNext]_vars

-----------------------------------------------------------------------------
(* The analyzeContract that parses the text (server/smartcheck-service).   *)
(* parse() is a function of a third party: what it does with a text is     *)
(* not known, but it does the same with the same text, so it is a function *)
(* chosen once, of which nothing else is assumed.                          *)

\* The end of the longest run of characters outside cs that starts at k.
RECURSIVE runEndNot(_, _, _)
runEndNot(s, k, cs) ==
    IF k <= Len(s) /\ charAt(s, k) \notin cs THEN runEndNot(s, k + 1, cs) ELSE k - 1

\* Where the match of /require\s*\([^;)]+\)(?!\s*;)/ that starts at k ends
\* (0 when there is none).
requireMatchEnd(s, k) ==
    IF ~includesAt(s, "require", k) THEN 0
    ELSE LET open == runEnd(s, k + 7, Whitespace) + 1
             last == runEndNot(s, open + 1, {";", ")"})
             next == runEnd(s, last + 2, Whitespace) + 1
         IN  IF /\ open <= Len(s) /\ charAt(s, open) = "("
                /\ last >= open + 1
                /\ last + 1 <= Len(s) /\ charAt(s, last + 1) = ")"
                /\ ~(next <= Len(s) /\ charAt(s, next) = ";")
             THEN last + 1
             ELSE 0

\* processedCode.replace(/require\s*\([^;)]+\)(?!\s*;)/g, '$&;')
RECURSIVE addMissingSemicolons(_)
addMissingSemicolons(s) ==
    LET starts == {k \in 1..Len(s) : requireMatchEnd(s, k) # 0}
    IN  IF starts = {} THEN s
        ELSE LET e == requireMatchEnd(s, Min(starts))
             IN  SubSeq(s, 1, e) \o ";" \o addMissingSemicolons(SubSeq(s, e + 1, Len(s)))

\* preprocessSolidityCode of the parsing analyzer
preprocessForParser(code) ==
    addMissingSemicolons(trim(replaceAll(code, "\r\n", "\n")))

\* index + 1 >= line, line being a string: a blank string converts to 0 and
\* a string that holds a letter to NaN, which compares false.
numberGeString(n, str) == IF trim(str) = "" THEN n >= 0 ELSE FALSE

\* const actualLine
actualLineOf(source) ==
    LET ls == split(source, "\n")
    IN  findIndex({n \in 1..Len(ls) :
                      /\ includes(ls[n], "require")
                      /\ ~includes(ls[n], ";")
                      /\ numberGeString(n, ls[n])}) + 1

SyntaxErrorFinding(ln, col) ==
    [severity |-> "error", message |-> "Syntax error in contract code", line |-> ln,
     column |-> col, rule |-> "syntax", description |-> "Parser error"]

AstReentrancyFinding(ln, col) ==
    [severity |-> "high", message |-> "Potential reentrancy vulnerability detected",
     line |-> ln, column |-> col, rule |-> "reentrancy",
     description |-> "The contract may be vulnerable to reentrancy attacks. State changes are made after external calls."]

AstInternalErrorFinding ==
    [severity |-> "error", message |-> "Analysis error", line |-> 1, column |-> 1,
     rule |-> "internal-error",
     description |-> "An internal error occurred while analyzing the contract."]

\* The contract of the tests, its first require without its semicolon.
MissingSemicolonContract ==
    join(<<"pragma solidity ^0.8.0;",
           "",
           "contract VulnerableContract {",
           "    mapping(address => uint) public balances;",
           "    ",
           "    function deposit() public payable {",
           "        balances[msg.sender] += msg.value;",
           "    }",
           "    ",
           "    function withdraw(uint amount) public {",
           "        require(balances[msg.sender] >= amount)",
           "        (bool success, ) = msg.sender.call{value: amount}(\"\");",
           "        require(success);",
           "        balances[msg.sender] -= amount;",
           "    }",
           "}">>, "\n")

\* The texts with the missing semicolon: as the test writes it (after an
\* empty first line), without that line, and after two empty lines.
MissingSemicolonTexts ==
    {"\n" \o MissingSemicolonContract, MissingSemicolonContract,
     "\n\n" \o MissingSemicolonContract}

AstInputs == MissingSemicolonTexts \cup {"\n" \o SAMPLE_CONTRACT}

\* What parse() can do with a text. It returns a tree in which
\* analyzeASTNode finds no reentrancy (clean), or finds one in a function
\* whose node gives its place (tree: the line, and the column, which the
\* parser counts from 0) or gives none (tree, line and column 0 standing for
\* the absent loc). Or it throws an error whose message gives a position
\* (error: line:column, the column counted from 0), or one whose message
\* gives none (message), or something that has no message (thrown).
ParseOutcomes(text) ==
    {[kind |-> "clean", line |-> 0, column |-> 0]}
    \cup {[kind |-> "tree", line |-> 10, column |-> c] : c \in {0, 4}}
    \cup {[kind |-> "tree", line |-> 0, column |-> 0]}
    \cup {[kind |-> "error", line |-> ln, column |-> c] :
              ln \in 1..Len(split(text, "\n")), c \in {0, 8}}
    \cup {[kind |-> "message", line |-> 0, column |-> 0],
          [kind |-> "thrown", line |-> 0, column |-> 0]}

\* analyzeContract(sourceCode) of the parsing analyzer, for a text.
analyzeWithParser(source, parser) ==
    LET outcome == parser[preprocessForParser(source)]
    IN  CASE outcome.kind = "clean" -> <<SentinelFinding>>
          [] outcome.kind = "tree" ->
                 \* node.loc?.start?.line || 0, node.loc?.start?.column || 0
                 <<AstReentrancyFinding(outcome.line, outcome.column)>>
          [] outcome.kind \in {"error", "message"} ->
                 LET line == IF outcome.kind = "error" THEN outcome.line ELSE 1
                     column == IF outcome.kind = "error" THEN outcome.column ELSE 1
                     actualLine == actualLineOf(source)
                 IN  <<SyntaxErrorFinding(IF actualLine # 0 THEN actualLine ELSE line,
                                          column)>>
          [] outcome.kind = "thrown" -> <<AstInternalErrorFinding>>

AstInit ==
    /\ parse \in UNION {[{preprocessForParser(t) : t \in AstInputs} -> ParseOutcomes(p)] :
                            p \in {preprocessForParser(t) : t \in AstInputs}}
    /\ astReturned = [t \in AstInputs |-> <<>>]
    /\ PairIdle
    /\ ApiIdle
    /\ sourceCode = JsUndefined /\ pc = "idle" /\ processedCode = <<>>
    /\ lines = <<>> /\ results = <<>> /\ contractResults = <<>>
    /\ currentFunction = NoFunction /\ functionStartLine = 0 /\ i = 0
    /\ index = 0 /\ user = NoUser /\ calls = <<>> /\ db = <<>>
    /\ error = NoError /\ promise = "pending" /\ ret = <<>>
    /\ analyzerCalls = <<>>

\* One call of analyzeContract, on a text not analyzed before.
AstAnalyze ==
    /\ \E t \in AstInputs :
          /\ astReturned[t] = <<>>
          /\ astReturned' = [astReturned EXCEPT ![t] = analyzeWithParser(t, parse)]
    /\ UNCHANGED <<parse, callVars, pairVars, apiVars>>

AstNext == AstAnalyze

SpecAst == AstInit /\ [][AstNext]_vars

-----------------------------------------------------------------------------
(* Properties                                                              *)

\* The call has passed the input validation and run the engine to its end.
Analyzed == pc \in {"getUser", "insert", "return", "catch", "done"} /\ calls # <<>>

Rules(res) == {res[n].rule : n \in 1..Len(res)}
Severities(res) == {res[n].severity : n \in 1..Len(res)}

\* C1: analyzeContract never raises to its caller and always returns a
\* non-empty sequence of findings, whatever the input value and whatever the
\* outcome (success, rejection or throw) of getUser and of insert.
C1_NeverRaisesNeverEmpty ==
    /\ promise # "rejected"
    /\ pc = "done" => promise = "fulfilled" /\ Len(ret) >= 1

\* A call that ended after insert failed.
C1_Witness == pc = "done" /\ error.call = "insert" /\ Len(ret) = 1

\* C2: a failure of getUser or of insert never changes the sequence that
\* analyzeContract returns: the sequence returned is the one the engine
\* produced (contractResults, which is what is returned when persistence
\* succeeds or the user is unauthenticated).
C2_PersistenceNeverChangesResult ==
    pc = "done" /\ calls # <<>> => ret = contractResults

\* C3: for an input that is not a string or is the empty string,
\* analyzeContract returns exactly the input-validation error and nothing of
\* preprocessing, extraction, rule evaluation or persistence has run.
C3_InvalidInput ==
    pc = "done" /\ (sourceCode.type # "string" \/ sourceCode.str = "") =>
        /\ ret = <<InputValidationFinding>>
        /\ ret[1].severity = "error" /\ ret[1].rule = "input-validation"
        /\ processedCode = <<>>
        /\ lines = <<>> /\ results = <<>> /\ contractResults = <<>>
        /\ currentFunction = NoFunction /\ i = 0 /\ index = 0
        /\ calls = <<>>

\* A call with a truthy value that is not a string has ended.
C3_Witness ==
    pc = "done" /\ sourceCode = JsNumber(42) /\ ret = <<InputValidationFinding>>

\* The lines of the text, as the engine sees them, hold no contract declaration.
NoContractLine == lines # <<>> /\ \A n \in 1..Len(lines) : ~startsWith(lines[n], "contract")

\* C4: for a non-empty text in which no trimmed line starts with "contract",
\* analyzeContract returns exactly the syntax error at line 1, and no
\* function-level, state-visibility or line-rule finding.
C4_NoContractGivesSyntaxError ==
    pc = "done" /\ NoContractLine =>
        /\ ret = <<SyntaxFinding>>
        /\ ret[1].severity = "error" /\ ret[1].rule = "syntax" /\ ret[1].line = 1

\* What holds of C4 in the code: the engine's own result for such a text is
\* the syntax error alone (it is what is returned unless persistence fails).
C4_EngineResult ==
    Analyzed /\ NoContractLine =>
        results = <<SyntaxFinding>> /\ contractResults = <<SyntaxFinding>>

\* C5: the returned sequence holds the analysis-complete sentinel if and only
\* if the accumulated findings (results) are empty or all of severity info;
\* the sentinel is then the only element, and it never appears together with
\* a finding of another severity.
C5_SentinelIffNothingFound ==
    pc = "done" /\ calls # <<>> =>
        /\ (SentinelFinding \in {ret[n] : n \in 1..Len(ret)})
              <=> (Severities(results) \subseteq {"info"})
        /\ "analysis-complete" \in Rules(ret) => ret = <<SentinelFinding>>

\* What holds of C5 in the code: the sentinel replaces the engine's result
\* exactly when nothing but info findings were accumulated.
C5_EngineResult ==
    Analyzed =>
        /\ contractResults = <<SentinelFinding>> <=> Severities(results) \subseteq {"info"}
        /\ "analysis-complete" \in Rules(contractResults) =>
              contractResults = <<SentinelFinding>>
        /\ "analysis-complete" \notin Rules(contractResults) => contractResults = results

\* The 1-based places of the lines that open a function, and the places of
\* the lines of the function opened at f (up to the next such line).
FunctionLines == {f \in 1..Len(lines) : startsWith(lines[f], "function")}
BodyOf(f) == {n \in (f + 1)..Len(lines) : \A m \in (f + 1)..n : m \notin FunctionLines}

CallLine == "msg.sender.call{value: amount}(\"\");"
StateLine == "balances[msg.sender] -= amount;"

CallThenState(f) ==
    \E a, b \in BodyOf(f) : a < b /\ lines[a] = CallLine /\ lines[b] = StateLine
StateThenCall(f) ==
    \E a, b \in BodyOf(f) : a < b /\ lines[a] = StateLine /\ lines[b] = CallLine

\* C6: a function whose body holds the external-call line on an earlier line
\* than the state-change line gives a high reentrancy finding in the result;
\* with the two lines in the reverse order the result holds no reentrancy
\* finding. Stated of the calls in which persistence did not fail.
C6_CallThenStateChangeIsReentrancy ==
    pc = "done" /\ error = NoError /\ lines # <<>> /\ ~NoContractLine =>
        /\ (\E f \in FunctionLines : CallThenState(f)) =>
              \E n \in 1..Len(ret) :
                  ret[n].rule = "reentrancy" /\ ret[n].severity = "high"
        /\ (\E f \in FunctionLines : StateThenCall(f))
              /\ (\A f \in FunctionLines : ~CallThenState(f))
              /\ (\A n \in 1..Len(lines) : ~ruleTriggers("reentrancy", lines[n]))
              => "reentrancy" \notin Rules(ret)

\* C7: for the sample contract (withdraw: require on the balance, the
\* external call, require(success), the state change) the first element of
\* the result is high / reentrancy. Stated of the calls in which persistence
\* did not fail.
C7_SampleContractReentrancyFirst ==
    /\ pc = "done"
    /\ error = NoError
    /\ sourceCode \in {JsString(SAMPLE_CONTRACT), JsString("\n" \o SAMPLE_CONTRACT)}
    => ret[1].severity = "high" /\ ret[1].rule = "reentrancy"

\* The reentrancy finding of the Function Analyzer at line f, and that of the
\* reentrancy line rule at line l.
FunctionReentrancyAt(f) ==
    Finding("high", "Potential reentrancy vulnerability detected", f, "reentrancy",
            "State changes are made after external calls, which could lead to reentrancy attacks.")
LineReentrancyAt(l) ==
    Finding("high", "Potential reentrancy vulnerability detected", l, "reentrancy",
            "The contract may be vulnerable to reentrancy attacks. State changes are made after external calls.")

Count(res, x) == Cardinality({n \in 1..Len(res) : res[n] = x})

\* A function reported at line f by the Function Analyzer and a line l within
\* 2 lines of it on which the reentrancy line rule triggers.
DetectedTwice(f, l) ==
    /\ f \in FunctionLines /\ l \in 1..Len(lines)
    /\ Count(results, FunctionReentrancyAt(f)) > 0
    /\ (includes(lines[l], ".call{") \/ includes(lines[l], ".send(")
           \/ includes(lines[l], ".transfer("))
    /\ (includes(lines[l], "balances[") \/ includes(lines[l], "+=")
           \/ includes(lines[l], "-="))
    /\ (f - l) \in -2..2

\* C8: when the Function Analyzer and the reentrancy line rule detect a
\* reentrancy within 2 lines of each other, the final sequence holds the
\* function-level finding once and not the line-rule finding.
C8_ReentrancyReportedOnce ==
    pc \in {"finalize", "getUser", "insert", "return", "catch", "done"} =>
        \A f, l \in 1..Len(lines) : DetectedTwice(f, l) =>
            /\ Count(results, FunctionReentrancyAt(f)) = 1
            /\ Count(results, LineReentrancyAt(l)) = 0
            /\ pc # "finalize" =>
                  /\ Count(contractResults, FunctionReentrancyAt(f)) = 1
                  /\ Count(contractResults, LineReentrancyAt(l)) = 0
            /\ pc = "done" =>
                  /\ Count(ret, FunctionReentrancyAt(f)) <= 1
                  /\ Count(ret, LineReentrancyAt(l)) = 0
                  /\ error = NoError => Count(ret, FunctionReentrancyAt(f)) = 1

\* A call has returned the function-level finding of a reentrancy that the
\* line rule detected too, one line below the signature.
C8_Witness ==
    /\ pc = "done"
    /\ \E f, l \in 1..Len(lines) :
          DetectedTwice(f, l) /\ l = f + 1 /\ Count(ret, FunctionReentrancyAt(f)) = 1

\* The number of state-visibility findings of the sequence at line l.
StateVisibilityAt(res, l) ==
    Cardinality({n \in 1..Len(res) :
                    /\ res[n].rule = "state-visibility" /\ res[n].severity = "low"
                    /\ res[n].line = l})

\* C9: in a text with a contract declaration and no later function line,
\* every line after the declaration that contains "public" and neither
\* "constant" nor "immutable" gives exactly one low state-visibility finding,
\* and a line with "constant" or "immutable" gives none. Stated of the calls
\* in which persistence did not fail.
C9_PublicStateVariables ==
    /\ pc = "done" /\ error = NoError /\ lines # <<>> /\ ~NoContractLine
    /\ \A f \in FunctionLines : f - 1 < contractLineOf(lines)
    => \A l \in (contractLineOf(lines) + 2)..Len(lines) :
          StateVisibilityAt(ret, l) =
              IF /\ includes(lines[l], "public")
                 /\ ~includes(lines[l], "constant")
                 /\ ~includes(lines[l], "immutable")
              THEN 1 ELSE 0

\* What holds of C9 in the code: the same, of every line after the
\* declaration but the last line of the text, which is never examined.
C9_EngineResult ==
    /\ Analyzed /\ ~NoContractLine
    /\ \A f \in FunctionLines : f - 1 < contractLineOf(lines)
    => \A l \in (contractLineOf(lines) + 2)..Len(lines) :
          StateVisibilityAt(results, l) =
              IF /\ l < Len(lines)
                 /\ includes(lines[l], "public")
                 /\ ~includes(lines[l], "constant")
                 /\ ~includes(lines[l], "immutable")
              THEN 1 ELSE 0

\* The number of findings of rule "visibility" of the sequence at line l.
VisibilityAt(res, l) ==
    Cardinality({n \in 1..Len(res) : res[n].rule = "visibility" /\ res[n].line = l})

\* The scanning loop has ended, every function having been analyzed.
Scanned ==
    /\ pc \in {"rules", "finalize", "getUser", "insert", "return", "catch", "done"}
    /\ lines # <<>> /\ ~NoContractLine

StepsComputeTheFunctions ==
    /\ pc = "finalize" => results = analyzeContractSimple(processedCode[1])
    /\ pc = "done" => ret = analyzeContractResult(sourceCode, error)

normalised(s) ==
    replaceAll(replaceAll(replaceAll(s, "\r\n", "\n"), "\r", "\n"), "\t", "    ")

\* C12: for every text s, analyzeContract(s) returns what analyzeContract
\* returns for s with its line endings normalised and its tabs expanded
\* (the awaits of getUser and insert ending the same way in both calls).
C12_LineEndingsAndTabs ==
    pc = "done" /\ sourceCode.type = "string" =>
        ret = analyzeContractResult(JsString(normalised(sourceCode.str)), error)

\* A call has returned a state-visibility finding for a contract written
\* with a lone carriage return as a line ending and a tab between words.
C12_Witness ==
    /\ pc = "done" /\ sourceCode.type = "string"
    /\ includes(sourceCode.str, "{\ruint\tpublic")
    /\ "state-visibility" \in Rules(ret)

\* C13: persistence is fire-and-forget and follows the return: whenever
\* getUser or insert has been called, the result has already been delivered
\* to the caller (the promise of analyzeContract is fulfilled).
C13_PersistenceAfterReturn ==
    calls # <<>> => promise = "fulfilled"

\* C14: two invocations whose executions interleave do not interfere: each
\* returns exactly what it returns when run alone on its own input (its own
\* awaits ending the same way), and each row stored holds the result of the
\* text stored with it.
C14_NoInterference ==
    /\ \A c \in Invocations :
          invocation[c].pc = "done" =>
              /\ invocation[c].promise = "fulfilled"
              /\ invocation[c].ret =
                    analyzeContractResult(invocation[c].sourceCode, invocation[c].error)
    /\ \A n \in 1..Len(table) :
          table[n].results =
              analyzeContractResult(JsString(table[n].source_code), NoError)

\* Two invocations on different texts, each suspended at an await while the
\* other ran, have both returned a result of the engine, and the two differ.
C14_Witness ==
    /\ \A c \in Invocations :
          /\ invocation[c].pc = "done" /\ invocation[c].interleaved
          /\ invocation[c].error = NoError
    /\ invocation[1].sourceCode # invocation[2].sourceCode
    /\ invocation[1].ret # invocation[2].ret
    /\ Len(table) = 2

\* C15: the handler of POST /api/analyze sends exactly one response per
\* request: 400 when sourceCode is missing from the body, without calling
\* analyzeContract; 500 when analyzeContract fails; and otherwise the
\* results that analyzeContract returned.
C15_OneResponsePerRequest ==
    /\ Len(responses) <= 1
    /\ handler = "done" =>
          /\ Len(responses) = 1
          /\ IF reqBody = JsUndefined
             THEN responses[1].status = 400 /\ serviceCalls = 0
             ELSE /\ serviceCalls = 1 /\ awaited # <<>>
                  /\ IF awaited[1].how = "rejected"
                     THEN responses[1].status = 500
                     ELSE responses[1] = Ok(awaited[1].value)

\* C15 as amended: 400, without calling analyzeContract, when sourceCode is
\* missing from the body or is a falsy value (null, 0, the empty string);
\* 500 when analyzeContract fails; otherwise the results it returned.
C15_OneResponsePerRequestAmended ==
    /\ Len(responses) <= 1
    /\ handler = "done" =>
          /\ Len(responses) = 1
          /\ IF reqBody \in {JsUndefined, JsNull, JsNumber(0), JsString("")}
             THEN responses[1].status = 400 /\ serviceCalls = 0 /\ awaited = <<>>
             ELSE /\ serviceCalls = 1 /\ awaited # <<>>
                  /\ IF awaited[1].how = "rejected"
                     THEN responses[1].status = 500
                     ELSE responses[1] = Ok(awaited[1].value)

\* A request whose sourceCode is the empty string has been answered 400.
C15_Witness ==
    /\ handler = "done" /\ reqBody = JsString("")
    /\ responses = <<BadRequest>> /\ serviceCalls = 0

\* The trigger of each rule of the catalog, as the rule table gives it.
Contains40HexAfter0x(text) ==
    \E k \in 1..(Len(text) - 41) :
        /\ SubSeq(text, k, k + 1) = "0x"
        /\ \A m \in (k + 2)..(k + 41) : SubSeq(text, m, m) \in HexChars

Trigger(id, text) ==
    LET has(p) == includes(text, p)
        checked == has("require(") \/ has("if (") \/ has("assert(")
    IN  CASE id = "reentrancy" ->
                 /\ (has(".call{") \/ has(".send(") \/ has(".transfer("))
                 /\ (has("balances[") \/ has("+=") \/ has("-="))
          [] id = "tx-origin" -> has("tx.origin")
          [] id = "timestamp-dependence" -> has("block.timestamp")
          [] id = "hardcoded-address" -> Contains40HexAfter0x(text)
          [] id = "unchecked-send" -> (has(".send(") \/ has(".transfer(")) /\ ~checked
          [] id = "delegatecall-usage" -> has(".delegatecall(")
          [] id = "selfdestruct-usage" -> has("selfdestruct(")
          [] id = "suicide-usage" -> has("suicide(")
          [] id = "throw-usage" -> has("throw;")
          [] id = "gas-limit" -> (has("for (") \/ has("while (")) /\ ~checked

RuleIds == {rules[k] : k \in 1..Len(rules)}

\* The results of the sequence that a rule of the catalog returned (the
\* reentrancy finding of analyzeFunction has another description).
IsRuleResult(r) == r.rule \in RuleIds /\ r.description = ruleDescription(r.rule)

\* The rules have just been applied to every line of a text with a contract.
RulesApplied == pc = "finalize" /\ index = Len(lines) /\ index > 0

\* C16: each rule's check returns a finding exactly when the rule's trigger
\* holds on the text it is given (the line the rules are applied to next);
\* so, the rules once applied, every result
\* of a rule stands at a line where its trigger holds, and every line where
\* a trigger holds has a result of that rule at it or within 2 lines of it.
C16_RuleTriggers ==
    /\ pc = "rules" =>
          \A id \in RuleIds :
              (check(id, lines[index + 1], index + 1) # <<>>)
                  <=> Trigger(id, lines[index + 1])
    /\ RulesApplied =>
          /\ \A k \in 1..Len(results) :
                IsRuleResult(results[k]) =>
                    /\ results[k].line \in 1..Len(lines)
                    /\ Trigger(results[k].rule, lines[results[k].line])
          /\ \A n \in 1..Len(lines) : \A id \in RuleIds :
                Trigger(id, lines[n]) =>
                    \E k \in 1..Len(results) :
                        /\ results[k].rule = id
                        /\ (results[k].line - n) \in -2..2

\* A call has returned for a text with a send that is checked and a loop
\* that is checked: neither unchecked-send nor gas-limit is reported.
C16_Witness ==
    /\ pc = "done" /\ error = NoError
    /\ \E n \in 1..Len(lines) : lines[n] = "require(addr.send(1));"
    /\ \E n \in 1..Len(lines) : lines[n] = "while (k < n) { assert(k < 10);"
    /\ Rules(ret) \cap {"unchecked-send", "gas-limit"} = {}

RequireLine(t) ==
    LET ls == split(t, "\n")
    IN  CHOOSE n \in 1..Len(ls) : includes(ls[n], "require(balances[msg.sender] >= amount)")

\* The first element of what was returned for t is a syntax error at the
\* line of the require that lacks its semicolon.
SyntaxErrorAtRequire(t) ==
    /\ astReturned[t][1].severity = "error"
    /\ includes(astReturned[t][1].message, "Syntax error")
    /\ astReturned[t][1].line = RequireLine(t)

\* C18: for a contract in which a require statement lacks its semicolon,
\* the first element of the result is an error whose message contains
\* 'Syntax error' and whose line is the line of that require in the text
\* as it was given.
C18_MissingSemicolonLine ==
    \A t \in MissingSemicolonTexts :
        astReturned[t] # <<>> => SyntaxErrorAtRequire(t)

\* What holds of C18 in the code, whatever parse() does: the text of the
\* test and the same text without its empty first line never both get the
\* result the claim gives, for they are preprocessed into the same text.
C18_NoParserGivesBoth ==
    LET t1 == "\n" \o MissingSemicolonContract
        t2 == MissingSemicolonContract
    IN  ~(/\ astReturned[t1] # <<>> /\ SyntaxErrorAtRequire(t1)
          /\ astReturned[t2] # <<>> /\ SyntaxErrorAtRequire(t2))

\* The lines of the function opened at f, its signature line included, and
\* the first of them that changes state and that calls out, as the Function
\* Analyzer finds them.
LinesOf(f) == {f} \cup BodyOf(f)
FirstStateChange(f) == Min({n \in LinesOf(f) : matchStateChange(lines[n])})
FirstExternalCall(f) == Min({n \in LinesOf(f) : matchExternalCall(lines[n])})

\* C19: for a function with an external call and a state change in its
\* body, the Function Analyzer reports high / reentrancy at the signature
\* line exactly when the first state-change line is not earlier than the
\* first external-call line, the same line included.
C19_ReentrancyWhenNotEarlier ==
    Scanned =>
        \A f \in FunctionLines :
            /\ \E n \in BodyOf(f) : matchExternalCall(lines[n])
            /\ \E n \in BodyOf(f) : matchStateChange(lines[n])
            => (Count(results, FunctionReentrancyAt(f)) = 1
                   <=> FirstStateChange(f) >= FirstExternalCall(f))

\* What holds of C19 in the code: the finding is reported exactly when the
\* first state-change line is later than the first external-call line.
C19_EngineResult ==
    Scanned =>
        \A f \in FunctionLines :
            /\ \E n \in BodyOf(f) : matchExternalCall(lines[n])
            /\ \E n \in BodyOf(f) : matchStateChange(lines[n])
            => (Count(results, FunctionReentrancyAt(f)) = 1
                   <=> FirstStateChange(f) > FirstExternalCall(f))

\* C20: during extraction the facts of the function are updated with the
\* patterns of the reentrancy line rule: once some lines of its body have
\* been scanned, hasExternalCall is true exactly if one of them contains
\* .call{, .send( or .transfer(, and hasStateChange exactly if one of them
\* contains balances[, += or -=.
C20_ExtractorUsesRulePatterns ==
    pc = "scan" /\ currentFunction # NoFunction =>
        LET scanned == (functionStartLine + 2)..i
        IN  /\ currentFunction[1].hasExternalCall <=>
                  \E n \in scanned :
                      \/ includes(lines[n], ".call{")
                      \/ includes(lines[n], ".send(")
                      \/ includes(lines[n], ".transfer(")
            /\ currentFunction[1].hasStateChange <=>
                  \E n \in scanned :
                      \/ includes(lines[n], "balances[")
                      \/ includes(lines[n], "+=")
                      \/ includes(lines[n], "-=")

\* The function lines among the first k lines, and the lines of the function
\* opened at f as one text (what its record holds in code when it is closed).
FunctionLinesUpTo(k) == {f \in FunctionLines : f <= k}
CodeOf(f) == join([n \in 1..(Cardinality(BodyOf(f)) + 1) |-> lines[f + n - 1]], "\n")

\* The k-th function line of the text, in source order.
NthFunctionLine(k) ==
    CHOOSE f \in FunctionLines : Cardinality(FunctionLinesUpTo(f)) = k

\* C21: the extraction scan hands every function record to analyzeFunction
\* exactly once and in source order. While the scan is at line i, at most one
\* record is current: the one opened at the last function line so far, and
\* the functions opened before it, and they only, have been analyzed. When
\* the scan has ended, the number of calls of analyzeFunction is the number
\* of lines starting with "function", and the k-th call was given the k-th
\* function, whole, with the line of its signature.
C21_EveryFunctionAnalyzedOnce ==
    /\ Len(currentFunction) <= 1
    /\ pc = "scan" =>
          /\ currentFunction # NoFunction <=> FunctionLinesUpTo(i) # {}
          /\ currentFunction # NoFunction =>
                functionStartLine + 1 = Max(FunctionLinesUpTo(i))
          /\ Len(analyzerCalls) =
                IF FunctionLinesUpTo(i) = {} THEN 0
                ELSE Cardinality(FunctionLinesUpTo(i)) - 1
    /\ Scanned => Len(analyzerCalls) = Cardinality(FunctionLines)
    /\ pc = "scan" \/ Scanned =>
          \A k \in 1..Len(analyzerCalls) :
              /\ analyzerCalls[k].startLine + 1 = NthFunctionLine(k)
              /\ analyzerCalls[k].func.code = CodeOf(NthFunctionLine(k))

\* A call has returned for a text of two functions, the second of which
\* was closed by the end of the text, and a line before the first function.
C21_Witness ==
    /\ pc = "done" /\ Len(analyzerCalls) = 2
    /\ analyzerCalls[1].startLine = 1 /\ analyzerCalls[2].startLine = 3
    /\ Len(lines) = 5

\* The finding the check of rule id returns for line n of the text.
RuleResultAt(id, n) == Finding(ruleSeverity(id), ruleMessage(id), n, id, ruleDescription(id))

\* The results array holds a finding of rule id within 2 lines of line n
\* that was in it before rule id was applied to line n: a finding of the
\* Function Analyzer, or the result of the rule for an earlier line.
HeldBefore(id, n) ==
    \E k \in 1..Len(results) :
        /\ results[k].rule = id
        /\ (results[k].line - n) \in -2..2
        /\ ~IsRuleResult(results[k]) \/ results[k].line < n

\* C22: the rules once applied to every line, the result of a rule that
\* triggers on a line is left out of the results array if and only if the
\* array held, when the rule was applied to the line, a finding of the
\* same rule within 2 lines (of the Function Analyzer, or of the rule for
\* an earlier line); every other result is in the array, once.
C22_SuppressedIffSimilarHeld ==
    RulesApplied /\ ~NoContractLine =>
        \A n \in 1..Len(lines) : \A id \in RuleIds :
            Trigger(id, lines[n]) =>
                Count(results, RuleResultAt(id, n)) =
                    IF HeldBefore(id, n) THEN 0 ELSE 1

\* The rules have been applied to a text with throw on lines 2, 4 and 6:
\* the result for line 4 was left out, and that for line 6, which is 2
\* lines from line 4 but 4 lines from line 2, was not.
C22_Witness ==
    /\ RulesApplied /\ Len(lines) = 6
    /\ \A n \in {2, 4, 6} : lines[n] = "throw;"
    /\ Count(results, RuleResultAt("throw-usage", 2)) = 1
    /\ Count(results, RuleResultAt("throw-usage", 4)) = 0
    /\ Count(results, RuleResultAt("throw-usage", 6)) = 1

\* The rules have been applied to a function that the Function Analyzer
\* reported for reentrancy at line 2: the reentrancy rule triggers on line
\* 5, and its result is in the array.
C22_WitnessFunctionLevel ==
    /\ RulesApplied
    /\ Count(results, FunctionReentrancyAt(2)) = 1
    /\ Count(results, RuleResultAt("reentrancy", 5)) = 1

\* The identifier that follows the keyword at the start of the line.
WordAfter(line, k) ==
    LET w == runEnd(line, k, Whitespace)
    IN  IF w >= k THEN SubSeq(line, w + 1, runEnd(line, w + 1, WordChars)) ELSE ""

\* The name of the function whose signature is the line.
NameOf(line) == WordAfter(line, 9)

\* The line carries the identifier onlyOwner following a modifier keyword.
OnlyOwnerFollowsModifier(line) ==
    \E k \in 1..Len(line) :
        includesAt(line, "modifier", k) /\ WordAfter(line, k + 8) = "onlyOwner"

\* The same, the keyword and the identifier one space apart.
OnlyOwnerOneSpaceAfterModifier(line) ==
    \E k \in 1..Len(line) :
        /\ includesAt(line, "modifier onlyOwner", k)
        /\ WordAfter(line, k + 8) = "onlyOwner"

\* The number of findings of the rule in the sequence at line l.
RuleAt(res, rule, l) ==
    Cardinality({n \in 1..Len(res) :
                    res[n].rule = rule /\ res[n].line = l /\ res[n].severity = "high"})

\* The four findings of an unprotected function opened at f are in results
\* exactly as its name and its lines tell, or none is when it is protected.
UnprotectedFindings(f, protected) ==
    /\ RuleAt(results, "unprotected-init", f) =
          IF ~protected /\ NameOf(lines[f]) = "initialize" THEN 1 ELSE 0
    /\ RuleAt(results, "unprotected-upgrade", f) =
          IF ~protected /\ NameOf(lines[f]) = "upgrade" THEN 1 ELSE 0
    /\ RuleAt(results, "unprotected-withdraw", f) =
          IF ~protected /\ NameOf(lines[f]) = "withdraw" THEN 1 ELSE 0
    /\ RuleAt(results, "unprotected-selfdestruct", f) =
          IF ~protected /\ \E n \in LinesOf(f) : includes(lines[n], "selfdestruct")
          THEN 1 ELSE 0

\* C23: a function whose signature line carries the identifier onlyOwner
\* following a modifier keyword is protected and yields none of the four
\* unprotected findings; a function that is not protected yields
\* unprotected-init, -upgrade, -withdraw when that is its name and
\* unprotected-selfdestruct when one of its lines contains selfdestruct.
C23_ProtectedByOnlyOwner ==
    Scanned =>
        \A f \in FunctionLines :
            UnprotectedFindings(f, OnlyOwnerFollowsModifier(lines[f]))

\* What holds of C23 in the code: a function is protected when onlyOwner
\* follows the modifier keyword after exactly one space.
C23_EngineResult ==
    Scanned =>
        \A f \in FunctionLines :
            UnprotectedFindings(f, OnlyOwnerOneSpaceAfterModifier(lines[f]))

\* The line validates the value received.
ValidatesValue(line) ==
    \/ startsWith(trim(line), "require(msg.value")
    \/ startsWith(trim(line), "if (msg.value")

\* C24: a function whose signature line contains payable yields exactly one
\* medium payable-validation finding, at its signature line, if and only if
\* none of its lines, trimmed, starts with require(msg.value or
\* if (msg.value; a function whose signature line does not contain payable
\* yields none, and no other line carries such a finding.
C24_PayableValidation ==
    Scanned =>
        /\ \A f \in FunctionLines :
              Cardinality({n \in 1..Len(results) :
                              /\ results[n].rule = "payable-validation"
                              /\ results[n].line = f}) =
                  IF /\ includes(lines[f], "payable")
                     /\ \A n \in LinesOf(f) : ~ValidatesValue(lines[n])
                  THEN 1 ELSE 0
        /\ \A n \in 1..Len(results) :
              results[n].rule = "payable-validation" =>
                  results[n].severity = "medium" /\ results[n].line \in FunctionLines

\* A call has returned for a payable function in which require(msg.value
\* occurs, but not at the start of a line: the finding is reported.
C24_Witness ==
    /\ pc = "done" /\ error = NoError /\ Len(lines) = 3
    /\ includes(lines[2], "payable")
    /\ lines[3] = "total += msg.value; require(msg.value > 0);"
    /\ \E n \in 1..Len(ret) : ret[n].rule = "payable-validation" /\ ret[n].line = 2

\* The line of the contract declaration and the function lines after it.
ContractLine == Min({n \in 1..Len(lines) : startsWith(lines[n], "contract")})
LaterFunctionLines == {f \in FunctionLines : f > ContractLine}

\* The lines strictly between the declaration and the first later function.
Preamble == (ContractLine + 1)..(Min(LaterFunctionLines) - 1)

\* C25: when a function line follows the contract declaration, the lines
\* examined as state variables are exactly those strictly between the
\* declaration and the first later function line, and each of them that is
\* flagged (public, neither constant nor immutable) has one
\* state-visibility finding, at its own 1-based line number; no other line
\* has one.
C25_PreambleLines ==
    Scanned /\ LaterFunctionLines # {} =>
        /\ stateVariablesOf(lines) = [n \in 1..Cardinality(Preamble) |-> lines[ContractLine + n]]
        /\ \A l \in 1..Len(lines) :
              StateVisibilityAt(results, l) =
                  IF /\ l \in Preamble
                     /\ includes(lines[l], "public")
                     /\ ~includes(lines[l], "constant")
                     /\ ~includes(lines[l], "immutable")
                  THEN 1 ELSE 0
        /\ \A n \in 1..Len(results) :
              results[n].rule = "state-visibility" => results[n].line \in Preamble
        /\ pc = "done" /\ error = NoError =>
              \A l \in 1..Len(lines) :
                  StateVisibilityAt(ret, l) = StateVisibilityAt(results, l)

\* A call has returned for a text with a function before the declaration
\* at line 2, a private and a public state variable at lines 3 and 4, a
\* function at line 5 and a public variable after it: the one finding is
\* at line 4.
C25_Witness ==
    /\ pc = "done" /\ error = NoError /\ Len(lines) = 6
    /\ lines[1] = "function early() private {" /\ ContractLine = 2
    /\ lines[3] = "address private owner;" /\ lines[4] = "uint public value;"
    /\ lines[6] = "uint public late;"
    /\ StateVisibilityAt(ret, 4) = 1
    /\ \A l \in {1, 2, 3, 5, 6} : StateVisibilityAt(ret, l) = 0

\* The findings of the Function Analyzer, in the order of its checks.
FunctionChecks ==
    <<"visibility", "payable-validation", "reentrancy", "unprotected-init",
      "unprotected-upgrade", "unprotected-withdraw", "unprotected-selfdestruct">>

IsFunctionFinding(r) ==
    /\ \E k \in 1..Len(FunctionChecks) : FunctionChecks[k] = r.rule
    /\ ~IsRuleResult(r)

PlaceIn(seq, x) == CHOOSE k \in 1..Len(seq) : seq[k] = x

\* The sequence is in detection order: function-level findings before
\* line-rule findings; function-level findings by function and, for one
\* function, in the order of the checks; line-rule findings by line and,
\* for one line, in the order of the catalog.
InDetectionOrder(res) ==
    \A a, b \in 1..Len(res) : a < b =>
        /\ ~(IsRuleResult(res[a]) /\ IsFunctionFinding(res[b]))
        /\ IsFunctionFinding(res[a]) /\ IsFunctionFinding(res[b]) =>
              \/ res[a].line < res[b].line
              \/ /\ res[a].line = res[b].line
                 /\ PlaceIn(FunctionChecks, res[a].rule) < PlaceIn(FunctionChecks, res[b].rule)
        /\ IsRuleResult(res[a]) /\ IsRuleResult(res[b]) =>
              \/ res[a].line < res[b].line
              \/ /\ res[a].line = res[b].line
                 /\ PlaceIn(rules, res[a].rule) < PlaceIn(rules, res[b].rule)

\* C26: when the sentinel did not replace it, the sequence returned is the
\* accumulated sequence, unmodified and in detection order.
C26_ReturnedInDetectionOrder ==
    pc = "done" /\ calls # <<>> /\ contractResults # <<SentinelFinding>> =>
        ret = results /\ InDetectionOrder(ret)

\* What holds of C26 in the code: the accumulated sequence is in detection
\* order, the state-visibility findings before all others; it is what the
\* engine gives when the sentinel does not replace it, and what is returned
\* when neither getUser nor insert fails.
C26_EngineResult ==
    Analyzed =>
        /\ InDetectionOrder(results)
        /\ \A a, b \in 1..Len(results) :
              a < b /\ results[b].rule = "state-visibility" =>
                  results[a].rule = "state-visibility" /\ results[a].line < results[b].line
        /\ contractResults # <<SentinelFinding>> => contractResults = results
        /\ pc = "done" /\ error = NoError => ret = contractResults

\* A call has returned four findings of one function (visibility,
\* payable-validation, reentrancy, unprotected-init) and a result of a rule
\* after them.
C26_FourOfOneFunction ==
    /\ pc = "done" /\ error = NoError /\ Len(ret) >= 5
    /\ \A k \in 1..4 : IsFunctionFinding(ret[k]) /\ ret[k].line = 2
    /\ ret[3].rule = "reentrancy"
    /\ IsRuleResult(ret[5])

Visibilities == <<"public", "private", "internal", "external">>

\* The record is what the signature line tells: its visibility is the first
\* of public, private, internal, external that the line contains, undefined
\* when it contains none, and it is payable exactly when the line contains
\* payable.
DerivedFromSignature(func, sig) ==
    LET found == {k \in 1..Len(Visibilities) : includes(sig, Visibilities[k])}
    IN  /\ func.visibility = IF found = {} THEN "undefined" ELSE Visibilities[Min(found)]
        /\ func.isPayable <=> includes(sig, "payable")

\* C27: the visibility of a function record is the first of public, private,
\* internal, external found in its signature line, unspecified when none
\* is, and isPayable is true exactly when the signature line contains
\* payable: of the current record during the scan and of every record
\* handed to the Function Analyzer.
C27_VisibilityAndPayable ==
    /\ pc = "scan" /\ currentFunction # NoFunction =>
          DerivedFromSignature(currentFunction[1], lines[functionStartLine + 1])
    /\ \A k \in 1..Len(analyzerCalls) :
          DerivedFromSignature(analyzerCalls[k].func, lines[analyzerCalls[k].startLine + 1])

\* A function whose signature line contains external, payable and, in the
\* name of a parameter, public was handed to the Function Analyzer as a
\* public payable function, and one without a visibility as unspecified.
C27_Witness ==
    /\ Len(analyzerCalls) = 2
    /\ includes(lines[analyzerCalls[1].startLine + 1], "external")
    /\ analyzerCalls[1].func.visibility = "public" /\ analyzerCalls[1].func.isPayable
    /\ analyzerCalls[2].func.visibility = "undefined" /\ ~analyzerCalls[2].func.isPayable

\* C28: every finding of every sequence that analyzeContract returns has
\* a line of at least 1 and a column of at least 1 (stated here of the
\* analyzer that parses the text).
C28_LineAndColumnPositive ==
    \A t \in AstInputs : \A n \in 1..Len(astReturned[t]) :
        astReturned[t][n].line >= 1 /\ astReturned[t][n].column >= 1

\* What holds of C28 in the code, for the heuristic engine: the column of
\* every finding returned is 1, and its line is at least 1 and at most the
\* number of lines of the normalised text (1 when the input is refused).
C28_HeuristicEngine ==
    pc = "done" =>
        \A n \in 1..Len(ret) :
            /\ ret[n].column = 1
            /\ ret[n].line >= 1
            /\ ret[n].line <= IF processedCode = <<>> THEN 1
                               ELSE Len(split(processedCode[1], "\n"))

\* The number of calls of the persistence collaborator of the name given.
Called(name) == Cardinality({n \in 1..Len(calls) : calls[n] = name})

ScanRecord ==
    pc = "scan" =>
        IF FunctionLinesUpTo(i) = {} THEN currentFunction = NoFunction
        ELSE LET f == Max(FunctionLinesUpTo(i))
             IN  /\ currentFunction # NoFunction
                 /\ currentFunction[1].code = join([n \in 1..(i - f + 1) |-> lines[f + n - 1]], "\n")
                 /\ currentFunction[1].hasExternalCall <=>
                       \E n \in (f + 1)..i : matchExternalCall(lines[n])
                 /\ currentFunction[1].hasStateChange <=>
                       \E n \in (f + 1)..i : matchStateChange(lines[n])

\* One step of the scan: a signature line opens a record with both flags
\* false; another line is appended to the current record, and to no record
\* handed over before, and leaves a flag that is true as it is.
ScanStep ==
    pc = "scan" /\ i' = i + 1 =>
        /\ SubSeq(analyzerCalls', 1, Len(analyzerCalls)) = analyzerCalls
        /\ IF startsWith(lines[i + 1], "function")
           THEN /\ currentFunction'[1].code = lines[i + 1]
                /\ ~currentFunction'[1].hasExternalCall
                /\ ~currentFunction'[1].hasStateChange
           ELSE /\ analyzerCalls' = analyzerCalls
                /\ currentFunction = NoFunction => currentFunction' = NoFunction
                /\ currentFunction # NoFunction =>
                      /\ currentFunction'[1].code = currentFunction[1].code \o "\n" \o lines[i + 1]
                      /\ currentFunction[1].hasExternalCall => currentFunction'[1].hasExternalCall
                      /\ currentFunction[1].hasStateChange => currentFunction'[1].hasStateChange

\* C30: during the extraction scan the flags hasExternalCall and
\* hasStateChange of the current function are false when its signature line
\* opens it, change only from false to true, and are set only by lines
\* after the signature line; every other line after the first signature
\* line is appended to the most recently opened record and to no other,
\* and the lines before the first signature line to none.
C30_FlagsAndBody == []ScanRecord /\ [][ScanStep]_vars

\* The scan is two lines past a signature line that holds an assignment: a
\* call on the next line has set hasExternalCall, the line after it has
\* left it true, and hasStateChange is false.
C30_Witness ==
    /\ pc = "scan" /\ currentFunction # NoFunction
    /\ lines[functionStartLine + 1] = "function set(uint v) { value = v; }"
    /\ i = functionStartLine + 3
    /\ lines[i - 1] = "owner.transfer(1);" /\ lines[i] = "selfdestruct(owner);"
    /\ currentFunction[1].hasExternalCall /\ ~currentFunction[1].hasStateChange

=============================================================================
